---- MODULE Spec2Model ----
(***************************************************************************)
(* Model of scripts/deduplicate.py: the field normalisers norm_doi and     *)
(* norm_title, and main's merge-and-dedup pipeline (precedence map, input  *)
(* spec parsing, frame construction, DOI pass, title pass, CSV output and  *)
(* the console report).                                                     *)
(*                                                                         *)
(* Text is modelled as a sequence of one-character strings, so that the    *)
(* normalisers are computed character by character as the code does.       *)
(* A missing cell (None / NaN, i.e. any non-str value) is NoValue.         *)
(***************************************************************************)
EXTENDS Integers, Sequences, FiniteSets, TLC

\* ------------------------------------------------------------------------
\* Bounds of the model
\* ------------------------------------------------------------------------
\* longest tail appended after "10.<digits>/" in the norm_doi inputs
MaxTail == 2
\* most --input specs on one command line
MaxInputs == 3
\* most rows in one input file
MaxRows == 2
\* most rows over all input files of one run
MaxTotal == 3
\* length of the long --precedence list (longer than the unranked rank)
LongLen == 101

\* ------------------------------------------------------------------------
\* Characters
\* ------------------------------------------------------------------------
\* a cell that holds no str (None, NaN): told from every str, "" included
NoValue == << "NaN" >>

\* the characters of the model in code-point order (Python compares str by
\* code point)
CharOrder ==
    << " ", "!", ")", ",", ".", "/", "0", "1", "2", "3", "4", "5", "6", "7",
       "8", "9", ":", ";", "A", "B", "D", "F", "G", "H", "I", "O", "P", "R",
       "S", "T", "X", "_", "a", "b", "d", "f", "g", "h", "i", "o", "p", "r",
       "s", "t", "x" >>

CharRange == {CharOrder[i] : i \in 1..Len(CharOrder)}

Ord(c) == CHOOSE i \in 1..Len(CharOrder) : CharOrder[i] = c

Whitespace == {" "}
Digits == {"0", "1", "2", "3", "4", "5", "6", "7", "8", "9"}
UpperToLower ==
    [c \in {"A", "B", "D", "F", "G", "H", "I", "O", "P", "R", "S", "T", "X"} |->
        CASE c = "A" -> "a" [] c = "B" -> "b" [] c = "D" -> "d"
          [] c = "F" -> "f" [] c = "G" -> "g" [] c = "H" -> "h"
          [] c = "I" -> "i" [] c = "O" -> "o" [] c = "P" -> "p"
          [] c = "R" -> "r" [] c = "S" -> "s" [] c = "T" -> "t"
          [] c = "X" -> "x"]
\* \w of the regular expressions: letters, digits and the underscore
WordChars == Digits \cup DOMAIN UpperToLower
             \cup {UpperToLower[c] : c \in DOMAIN UpperToLower} \cup {"_"}

IsStr(s) == s # NoValue

\* str.lower()
Lower(s) == [i \in 1..Len(s) |-> IF s[i] \in DOMAIN UpperToLower
                                 THEN UpperToLower[s[i]] ELSE s[i]]

RECURSIVE LStripChars(_, _)
\* str.lstrip(chars)
LStripChars(s, chars) ==
    IF s # << >> /\ Head(s) \in chars THEN LStripChars(Tail(s), chars) ELSE s

RECURSIVE RStripChars(_, _)
\* str.rstrip(chars)
RStripChars(s, chars) ==
    IF s # << >> /\ s[Len(s)] \in chars
    THEN RStripChars(SubSeq(s, 1, Len(s) - 1), chars) ELSE s

\* str.strip(chars); str.strip() is StripChars(s, Whitespace)
StripChars(s, chars) == RStripChars(LStripChars(s, chars), chars)

RECURSIVE Replace(_, _)
\* str.replace(old, ""): the occurrences of old are removed left to right,
\* without rescanning what a removal joins
Replace(s, old) ==
    IF Len(s) < Len(old) THEN s
    ELSE IF SubSeq(s, 1, Len(old)) = old
         THEN Replace(SubSeq(s, Len(old) + 1, Len(s)), old)
         ELSE << Head(s) >> \o Replace(Tail(s), old)

HttpsPrefix == << "h", "t", "t", "p", "s", ":", "/", "/", "d", "o", "i", ".",
                  "o", "r", "g", "/" >>
HttpPrefix == << "h", "t", "t", "p", ":", "/", "/", "d", "o", "i", ".", "o",
                 "r", "g", "/" >>

\* fewest and most digits of the registrant in the pattern 10\.\d{4,9}/\S+
MinRegDigits == 4
MaxRegDigits == 9

RECURSIVE RunLen(_, _, _)
\* length of the longest run of characters of set starting at s[i]
RunLen(s, i, set) ==
    IF i <= Len(s) /\ s[i] \in set THEN 1 + RunLen(s, i + 1, set) ELSE 0

\* a pattern that accepts a registrant of any length from one digit
DoiMatchEndAnyDigits(s, i) ==
    IF i + 2 <= Len(s) /\ s[i] = "1" /\ s[i + 1] = "0" /\ s[i + 2] = "."
    THEN LET k == RunLen(s, i + 3, Digits)
             t == RunLen(s, i + 4 + k, CharRange \ Whitespace)
         IN IF /\ k >= 1
               /\ i + 3 + k <= Len(s) /\ s[i + 3 + k] = "/"
               /\ t >= 1
            THEN i + 3 + k + t
            ELSE 0
    ELSE 0
\* the end of the match of 10\.\d{4,9}/\S+ that starts at s[i], or 0 when
\* there is none.  The digits are followed by "/", which is no digit, so the
\* digits matched are the whole run of digits after "10."; \S+ is greedy.
DoiMatchEnd(s, i) ==
    IF i + 2 <= Len(s) /\ s[i] = "1" /\ s[i + 1] = "0" /\ s[i + 2] = "."
    THEN LET k == RunLen(s, i + 3, Digits)
             t == RunLen(s, i + 4 + k, CharRange \ Whitespace)
         IN IF /\ k >= MinRegDigits /\ k <= MaxRegDigits
               /\ i + 3 + k <= Len(s) /\ s[i + 3 + k] = "/"
               /\ t >= 1
            THEN i + 3 + k + t
            ELSE 0
    ELSE 0


RECURSIVE SearchFrom(_, _)
\* re.search: the leftmost start at or after i with a match, as <<start, end>>,
\* or << >> when the pattern matches nowhere
SearchFrom(s, i) ==
    IF i > Len(s) THEN << >>
    ELSE IF DoiMatchEnd(s, i) # 0 THEN << i, DoiMatchEnd(s, i) >>
         ELSE SearchFrom(s, i + 1)

DoiTrailing == {".", ",", ";", ")"}

norm_doi(x) ==
    IF ~IsStr(x) THEN << >>
    ELSE LET s1 == Lower(StripChars(x, Whitespace))
             s2 == Replace(Replace(s1, HttpsPrefix), HttpPrefix)
             s3 == StripChars(StripChars(s2, Whitespace), {"."})
             m == SearchFrom(s3, 1)
         IN IF m = << >> THEN << >>
            ELSE RStripChars(SubSeq(s3, m[1], m[2]), DoiTrailing)

RECURSIVE CollapseSpaces(_)
\* re.sub(r"\s+", " ", s): every run of whitespace becomes one space
CollapseSpaces(s) ==
    IF s = << >> THEN << >>
    ELSE IF Head(s) \in Whitespace
         THEN << " " >> \o CollapseSpaces(LStripChars(s, Whitespace))
         ELSE << Head(s) >> \o CollapseSpaces(Tail(s))

norm_title(x) ==
    IF ~IsStr(x) THEN << >>
    ELSE LET s1 == Lower(StripChars(x, Whitespace))
             s2 == [i \in 1..Len(s1) |->
                       IF s1[i] \in WordChars \cup Whitespace THEN s1[i] ELSE " "]
         IN StripChars(CollapseSpaces(s2), Whitespace)

\* ------------------------------------------------------------------------
\* Ordering, stable sort and drop_duplicates
\* ------------------------------------------------------------------------
RECURSIVE StrLess(_, _)
\* a < b for two str values (lexicographic by code point)
StrLess(a, b) ==
    IF b = << >> THEN FALSE
    ELSE IF a = << >> THEN TRUE
    ELSE IF Head(a) = Head(b) THEN StrLess(Tail(a), Tail(b))
    ELSE Ord(Head(a)) < Ord(Head(b))

\* the sort keys of the two sort_values calls
LessDoiRank(a, b) ==
    \/ StrLess(a.doi_norm, b.doi_norm)
    \/ a.doi_norm = b.doi_norm /\ a.source_rank < b.source_rank

LessTitleRank(a, b) ==
    \/ StrLess(a.title_norm, b.title_norm)
    \/ a.title_norm = b.title_norm /\ a.source_rank < b.source_rank

\* x inserted into the sequence s, sorted by (doi_norm, source_rank), behind
\* every record that is not greater than x, so that records with equal keys
\* keep their order
InsertByDoiRank(s, x) ==
    LET n == Cardinality({j \in 1..Len(s) : ~LessDoiRank(x, s[j])})
    IN SubSeq(s, 1, n) \o << x >> \o SubSeq(s, n + 1, Len(s))

\* sort_values(by=["doi_norm", "source_rank"]): with several keys pandas
\* sorts with a lexsort, which is stable
SortByDoiRank(s) ==
    LET sorted[i \in 0..Len(s)] ==
            IF i = 0 THEN << >> ELSE InsertByDoiRank(sorted[i - 1], s[i])
    IN sorted[Len(s)]

\* the same for the keys (title_norm, source_rank)
InsertByTitleRank(s, x) ==
    LET n == Cardinality({j \in 1..Len(s) : ~LessTitleRank(x, s[j])})
    IN SubSeq(s, 1, n) \o << x >> \o SubSeq(s, n + 1, Len(s))

\* sort_values(by=["title_norm", "source_rank"])
SortByTitleRank(s) ==
    LET sorted[i \in 0..Len(s)] ==
            IF i = 0 THEN << >> ELSE InsertByTitleRank(sorted[i - 1], s[i])
    IN sorted[Len(s)]

\* drop_duplicates(subset=["doi_norm"], keep="last")
DropDuplicatesDoiKeepLast(s) ==
    LET kept[i \in 0..Len(s)] ==
            IF i = 0 THEN << >>
            ELSE kept[i - 1] \o
                 (IF \A j \in (i + 1)..Len(s) : s[j].doi_norm # s[i].doi_norm
                  THEN << s[i] >> ELSE << >>)
    IN kept[Len(s)]

\* drop_duplicates(subset=["doi_norm"], keep="first")
DropDuplicatesDoi(s) ==
    LET kept[i \in 0..Len(s)] ==
            IF i = 0 THEN << >>
            ELSE kept[i - 1] \o
                 (IF \A j \in 1..(i - 1) : s[j].doi_norm # s[i].doi_norm
                  THEN << s[i] >> ELSE << >>)
    IN kept[Len(s)]

\* a title pass that lets every record through
DropDuplicatesTitleNone(s) == s

\* drop_duplicates(subset=["title_norm"], keep="first")
DropDuplicatesTitle(s) ==
    LET kept[i \in 0..Len(s)] ==
            IF i = 0 THEN << >>
            ELSE kept[i - 1] \o
                 (IF \A j \in 1..(i - 1) : s[j].title_norm # s[i].title_norm
                  THEN << s[i] >> ELSE << >>)
    IN kept[Len(s)]

Range(s) == {s[i] : i \in 1..Len(s)}

RECURSIVE Concat(_)
\* pd.concat of a list of frames
Concat(fs) == IF fs = << >> THEN << >> ELSE Head(fs) \o Concat(Tail(fs))

\* df["source"].value_counts().to_dict()
compute_stats(df) ==
    [l \in {df[i].source : i \in 1..Len(df)} |->
        Cardinality({i \in 1..Len(df) : df[i].source = l})]

\* ------------------------------------------------------------------------
\* Precedence
\* ------------------------------------------------------------------------
\* rank given to a source that is not in the precedence list
UnrankedRank == 99

\* a label as written on the command line: its text and whether blanks
\* surround it; str.strip() leaves the text
StripLabel(tok) == tok.text

\* [s.strip() for s in args.precedence.split(",") if s.strip()]
ParsePrecedence(tokens) ==
    LET stripped == [i \in 1..Len(tokens) |-> StripLabel(tokens[i])]
    IN SelectSeq(stripped, LAMBDA t : t # "")

\* {label: i for i, label in enumerate(precedence)}: a label that is
\* repeated keeps the index of its last occurrence
PrecMap(prec) ==
    [l \in Range(prec) |->
        (CHOOSE i \in 1..Len(prec) :
            /\ prec[i] = l
            /\ \A j \in (i + 1)..Len(prec) : prec[j] # l) - 1]

\* prec_map.get(s, 99)
SourceRank(pm, s) == IF s \in DOMAIN pm THEN pm[s] ELSE UnrankedRank

\* ------------------------------------------------------------------------
\* Frames
\* ------------------------------------------------------------------------
\* a file that no encoding reads, and a file that holds a table
Unreadable == [readable |-> FALSE, table |-> << >>]
File(table) == [readable |-> TRUE, table |-> table]

\* read_csv_any
read_csv_any(path) == path.table

\* DataFrame built from the columns picked from the raw table, every row
\* tagged with the label
extract_standard(raw, label) ==
    [i \in 1..Len(raw) |->
        [source |-> label, title |-> raw[i].title, authors |-> raw[i].authors,
         year |-> raw[i].year, doi |-> raw[i].doi, url |-> raw[i].url]]

\* the three derived columns added to a frame in main's loop
Normalised(df, pm) ==
    [i \in 1..Len(df) |->
        [source |-> df[i].source, title |-> df[i].title,
         authors |-> df[i].authors, year |-> df[i].year, doi |-> df[i].doi,
         url |-> df[i].url,
         title_norm |-> norm_title(df[i].title),
         doi_norm |-> norm_doi(df[i].doi),
         source_rank |-> SourceRank(pm, df[i].source)]]

\* pd.concat(frames, ignore_index=True): the rows get the index 0, 1, ...;
\* the index is carried as the field row and names the merged record a row
\* of a later frame is
Indexed(df) ==
    [i \in 1..Len(df) |->
        [source |-> df[i].source, title |-> df[i].title,
         authors |-> df[i].authors, year |-> df[i].year, doi |-> df[i].doi,
         url |-> df[i].url, title_norm |-> df[i].title_norm,
         doi_norm |-> df[i].doi_norm, source_rank |-> df[i].source_rank,
         row |-> i - 1]]

\* an output that writes the normalised title in place of the title
OutColsNormTitle(df) ==
    [i \in 1..Len(df) |->
        [source |-> df[i].source, title |-> df[i].title_norm,
         authors |-> df[i].authors, year |-> df[i].year, doi |-> df[i].doi,
         url |-> df[i].url]]

\* dedup_all[out_cols]
OutCols(df) ==
    [i \in 1..Len(df) |->
        [source |-> df[i].source, title |-> df[i].title,
         authors |-> df[i].authors, year |-> df[i].year, doi |-> df[i].doi,
         url |-> df[i].url]]

\* ------------------------------------------------------------------------
\* State
\* ------------------------------------------------------------------------
VARIABLES
    args,               \* the parsed command line: input, precedence, print_stats
    pc,                 \* the statement of main that runs next
    k,                  \* position of the running for loop
    precedence,         \* main's locals, named as in the code
    prec_map,
    inputs,
    frames,
    merged,
    initial_total,
    per_source_before,
    dedup_doi,
    combined,
    dedup_all,
    final_total,
    removed,
    per_source_after,
    out_csv,            \* the file args.out: whether written, and its rows
    stdout,             \* the lines printed so far
    exit_status,        \* "running", "ok" (main returned) or "error" (traceback)
    x, y, z             \* a value, its norm_doi, and the norm_doi of that

vars == << args, pc, k, precedence, prec_map, inputs, frames, merged,
           initial_total, per_source_before, dedup_doi, combined, dedup_all,
           final_total, removed, per_source_after, out_csv, stdout,
           exit_status, x, y, z >>

locals == << precedence, prec_map, inputs, frames, merged, initial_total,
             per_source_before, dedup_doi, combined, dedup_all, final_total,
             removed, per_source_after >>

\* ------------------------------------------------------------------------
\* Inputs
\* ------------------------------------------------------------------------
Tok(t) == [text |-> t, pad |-> FALSE]
Padded(t) == [text |-> t, pad |-> TRUE]

Row(t, d) == [title |-> t, authors |-> NoValue, year |-> NoValue, doi |-> d,
              url |-> NoValue]

\* an --input value without a colon
Malformed == [colon |-> FALSE]
\* an --input value "label:path"; the path is given by the file it names
InputSpec(label, file) == [colon |-> TRUE, label |-> label, path |-> file]

TableRows(spec) ==
    IF spec.colon THEN Len(spec.path.table) ELSE 0

RECURSIVE TotalRows(_)
TotalRows(il) == IF il = << >> THEN 0 ELSE TableRows(Head(il)) + TotalRows(Tail(il))

SeqsUpTo(S, n) == UNION {[1..m -> S] : m \in 0..n}

D_a == << "1", "0", ".", "1", "0", "0", "0", "/", "a" >>
D_B == << " ", "1", "0", ".", "1", "0", "0", "0", "/", "B", "." >>
T_Foo == << "F", "o", "o" >>
T_Bar == << "B", "a", "r", "!" >>
T_FooBar == << "F", "o", "o", " ", "B", "a", "r" >>
\* the DOIs of the end-to-end scenario and the same with a registrant of
\* four digits
E_x == << "1", "0", ".", "1", "/", "x" >>
E_X == << "1", "0", ".", "1", "/", "X" >>
V_x == << "1", "0", ".", "1", "0", "0", "0", "/", "x" >>
V_X == << "1", "0", ".", "1", "0", "0", "0", "/", "X" >>

DoiPool == {NoValue, D_a, D_B}
TitlePool == {T_Foo, T_Bar}
Rows == {Row(t, d) : t \in TitlePool, d \in DoiPool}
InputLabels == {Tok("Scopus"), Tok("IEEE Xplore"), Padded("Other")}

\* "Scopus,IEEE Xplore" with fillers in between, so that the last label has
\* an index above UnrankedRank
LongPrecedence ==
    [i \in 1..LongLen |->
        IF i = 1 THEN Tok("Scopus")
        ELSE IF i = LongLen THEN Tok("IEEE Xplore")
        ELSE Tok("L" \o ToString(i))]

DefaultPrecedence ==
    << Tok("Scopus"), Tok("IEEE Xplore"), Tok("ScienceDirect") >>
ReversedPrecedence == << Tok("IEEE Xplore"), Padded("Scopus") >>

PrecedenceArgs ==
    { DefaultPrecedence,
      ReversedPrecedence,
      << Tok("Scopus"), Padded(""), Tok("IEEE Xplore"), Tok("Scopus") >>,
      << Tok("") >>,
      LongPrecedence }

\* every record in a file of its own, any label, any row
RecordSpecs == {InputSpec(l, File(<< r >>)) : l \in InputLabels, r \in Rows}
RecordRuns ==
    [input : SeqsUpTo(RecordSpecs, MaxTotal) \ {<< >>},
     precedence : {ReversedPrecedence},
     print_stats : {FALSE}]

\* malformed values, unreadable files and files of several rows
ShapeRows == {Row(T_Foo, NoValue), Row(T_Bar, D_a)}
ShapeSpecs ==
    {Malformed, InputSpec(Padded("Other"), Unreadable)}
    \cup {InputSpec(Tok("Scopus"), File(t)) : t \in SeqsUpTo(ShapeRows, MaxRows)}
ShapeRuns ==
    [input : {il \in SeqsUpTo(ShapeSpecs, MaxInputs) :
                 il # << >> /\ TotalRows(il) <= MaxTotal},
     precedence : {DefaultPrecedence},
     print_stats : BOOLEAN]

\* two records, any two labels, under every precedence list
PrecedenceRuns ==
    [input : {<< a, b >> : a \in RecordSpecs, b \in RecordSpecs},
     precedence : PrecedenceArgs,
     print_stats : {TRUE}]

\* the end-to-end scenario: one Scopus record, one IEEE Xplore record
ScenarioRuns ==
    [input : {<< InputSpec(Tok("Scopus"), File(<< Row(T_Foo, da) >>)),
                 InputSpec(Tok("IEEE Xplore"), File(<< Row(T_FooBar, db) >>)) >> :
                da \in {E_x, V_x}, db \in {E_X, V_X}},
     precedence : {<< Tok("Scopus"), Tok("IEEE Xplore") >>},
     print_stats : BOOLEAN]

Runs == RecordRuns \cup ShapeRuns \cup PrecedenceRuns \cup ScenarioRuns

InitLocals ==
    /\ pc = "start"
    /\ k = 0
    /\ precedence = << >>
    /\ prec_map = << >>
    /\ inputs = << >>
    /\ frames = << >>
    /\ merged = << >>
    /\ initial_total = 0
    /\ per_source_before = << >>
    /\ dedup_doi = << >>
    /\ combined = << >>
    /\ dedup_all = << >>
    /\ final_total = 0
    /\ removed = 0
    /\ per_source_after = << >>
    /\ out_csv = [written |-> FALSE, rows |-> << >>]
    /\ stdout = << >>
    /\ exit_status = "running"

Init ==
    /\ args \in Runs
    /\ InitLocals
    /\ x = NoValue /\ y = NoValue /\ z = NoValue

\* ------------------------------------------------------------------------
\* main
\* ------------------------------------------------------------------------
\* lines 119-120
BuildPrecedence ==
    /\ pc = "start"
    /\ precedence' = ParsePrecedence(args.precedence)
    /\ prec_map' = PrecMap(ParsePrecedence(args.precedence))
    /\ pc' = "specs"
    /\ k' = 1
    /\ UNCHANGED << args, inputs, frames, merged, initial_total,
                    per_source_before, dedup_doi, combined, dedup_all,
                    final_total, removed, per_source_after, out_csv, stdout,
                    exit_status, x, y, z >>

\* after the last --input value the loop over inputs starts
AfterSpec ==
    /\ k' = IF k = Len(args.input) THEN 1 ELSE k + 1
    /\ pc' = IF k = Len(args.input) THEN "frames" ELSE "specs"

\* lines 123-126: a value without a colon is reported and skipped
WarnSkip ==
    /\ pc = "specs"
    /\ ~args.input[k].colon
    /\ stdout' = Append(stdout, [line |-> "WARN", spec |-> k])
    /\ AfterSpec
    /\ UNCHANGED << args, locals, out_csv, exit_status, x, y, z >>

\* lines 127-128
AddInput ==
    /\ pc = "specs"
    /\ args.input[k].colon
    /\ inputs' = Append(inputs, [label |-> StripLabel(args.input[k].label),
                                 path |-> args.input[k].path])
    /\ AfterSpec
    /\ UNCHANGED << args, precedence, prec_map, frames, merged, initial_total,
                    per_source_before, dedup_doi, combined, dedup_all,
                    final_total, removed, per_source_after, out_csv, stdout,
                    exit_status, x, y, z >>

\* lines 131-138: one pass of the loop over inputs (the column __src_file__
\* of line 137 is read nowhere and is left out)
ReadFrame ==
    /\ pc = "frames"
    /\ k <= Len(inputs)
    /\ inputs[k].path.readable
    /\ frames' = Append(frames,
                        Normalised(extract_standard(read_csv_any(inputs[k].path),
                                                    inputs[k].label), prec_map))
    /\ k' = k + 1
    /\ UNCHANGED << args, pc, precedence, prec_map, inputs, merged,
                    initial_total, per_source_before, dedup_doi, combined,
                    dedup_all, final_total, removed, per_source_after, out_csv,
                    stdout, exit_status, x, y, z >>

\* line 132, lines 63-69: no encoding reads the file and RuntimeError ends
\* the run
ReadFail ==
    /\ pc = "frames"
    /\ k <= Len(inputs)
    /\ ~inputs[k].path.readable
    /\ pc' = "failed"
    /\ exit_status' = "error"
    /\ UNCHANGED << args, k, locals, out_csv, stdout, x, y, z >>

\* lines 140-145
ConcatFrames ==
    /\ pc = "frames"
    /\ k > Len(inputs)
    /\ merged' = Indexed(Concat(frames))
    /\ initial_total' = Len(Concat(frames))
    /\ per_source_before' = compute_stats(Concat(frames))
    /\ pc' = "doi"
    /\ UNCHANGED << args, k, precedence, prec_map, inputs, frames, dedup_doi,
                    combined, dedup_all, final_total, removed,
                    per_source_after, out_csv, stdout, exit_status, x, y, z >>

\* lines 148-152
DoiPass ==
    /\ pc = "doi"
    /\ LET sorted == SortByDoiRank(merged)
           has_doi == SelectSeq(sorted, LAMBDA r : r.doi_norm # << >>)
       IN /\ merged' = sorted
          /\ dedup_doi' = DropDuplicatesDoi(has_doi)
    /\ pc' = "title"
    /\ UNCHANGED << args, k, precedence, prec_map, inputs, frames,
                    initial_total, per_source_before, combined, dedup_all,
                    final_total, removed, per_source_after, out_csv, stdout,
                    exit_status, x, y, z >>

\* lines 150, 153-159
TitlePass ==
    /\ pc = "title"
    /\ LET no_doi == SelectSeq(merged, LAMBDA r : r.doi_norm = << >>)
           sorted == SortByTitleRank(dedup_doi \o no_doi)
       IN /\ combined' = sorted
          /\ dedup_all' = DropDuplicatesTitle(sorted)
          /\ final_total' = Len(DropDuplicatesTitle(sorted))
          /\ removed' = initial_total - Len(DropDuplicatesTitle(sorted))
          /\ per_source_after' = compute_stats(DropDuplicatesTitle(sorted))
    /\ pc' = "write"
    /\ UNCHANGED << args, k, precedence, prec_map, inputs, frames, merged,
                    initial_total, per_source_before, dedup_doi, out_csv,
                    stdout, exit_status, x, y, z >>

\* lines 162-164
WriteCsv ==
    /\ pc = "write"
    /\ out_csv' = [written |-> TRUE, rows |-> OutCols(dedup_all)]
    /\ pc' = "summary"
    /\ UNCHANGED << args, k, locals, stdout, exit_status, x, y, z >>

\* line 166
PrintSummary ==
    /\ pc = "summary"
    /\ stdout' = Append(stdout, [line |-> "OK", total |-> initial_total,
                                 unique |-> final_total, removed |-> removed])
    /\ pc' = "stats"
    /\ UNCHANGED << args, k, locals, out_csv, exit_status, x, y, z >>

\* the attributes of the argparse Namespace (lines 111-117): the option
\* --print-stats is stored as print_stats
NamespaceAttrs == {"input", "out", "precedence", "print_stats"}

\* line 167: "args.print-stats" is the subtraction args.print - stats; the
\* Namespace has no attribute print, AttributeError is raised and is not
\* caught (lines 178-181 catch KeyboardInterrupt only).  Lines 168-174 are
\* never reached.
TestPrintStats ==
    /\ pc = "stats"
    /\ "print" \notin NamespaceAttrs
    /\ pc' = "crashed"
    /\ exit_status' = "error"
    /\ UNCHANGED << args, k, locals, out_csv, stdout, x, y, z >>

Next ==
    \/ BuildPrecedence
    \/ WarnSkip
    \/ AddInput
    \/ ReadFrame
    \/ ReadFail
    \/ ConcatFrames
    \/ DoiPass
    \/ TitlePass
    \/ WriteCsv
    \/ PrintSummary
    \/ TestPrintStats

Spec == Init /\ [][Next]_vars

\* ------------------------------------------------------------------------
\* norm_doi applied twice
\* ------------------------------------------------------------------------
Leads == { << >>, << " ", "." >>, HttpsPrefix, HttpPrefix,
           << "D", "O", "I", ":" >> }
Registrants == { << "1", "0", ".", "1" >>,
                 << "1", "0", ".", "1", "0", "0", "0" >> }
TailChars == {"x", "X", ".", ";", ")", ",", " "}

NormInputs ==
    {NoValue} \cup
    {lead \o reg \o << "/" >> \o tail :
        lead \in Leads, reg \in Registrants, tail \in SeqsUpTo(TailChars, MaxTail)}

NoArgs == [input |-> << >>, precedence |-> << >>, print_stats |-> FALSE]

InitNorm ==
    /\ args = NoArgs
    /\ InitLocals
    /\ x \in NormInputs
    /\ y = NoValue /\ z = NoValue

ApplyNormDoi ==
    /\ pc = "start"
    /\ y' = norm_doi(x)
    /\ pc' = "normed"
    /\ UNCHANGED << args, k, locals, out_csv, stdout, exit_status, x, z >>

ApplyAgain ==
    /\ pc = "normed"
    /\ z' = norm_doi(y)
    /\ pc' = "renormed"
    /\ UNCHANGED << args, k, locals, out_csv, stdout, exit_status, x, y >>

NextNorm == ApplyNormDoi \/ ApplyAgain

SpecNorm == InitNorm /\ [][NextNorm]_vars

\* ------------------------------------------------------------------------
\* Properties
\* ------------------------------------------------------------------------
\* the records of the valid --input values, in --input order and file order
ExpectedRecords ==
    LET valid == SelectSeq(args.input, LAMBDA sp : sp.colon)
    IN Concat([i \in 1..Len(valid) |->
                  extract_standard(read_csv_any(valid[i].path),
                                   StripLabel(valid[i].label))])

DoiPassDone == pc \in {"title", "write", "summary", "stats", "crashed"}
TitlePassDone == pc \in {"write", "summary", "stats", "crashed"}
\* main has ended after the output was written
Ended == pc \in {"crashed", "done"}

Listed(source) == source \in Range(precedence)

\* C1: in the final set written by main, two distinct survivors either both
\* have an empty doiNorm or have different doiNorm values, two survivors
\* without a DOI key have different titleNorm values, and a survivor with a
\* DOI key and one without never share a titleNorm.
DedupPostcondition ==
    out_csv.written =>
        \A i, j \in 1..Len(out_csv.rows) :
            i # j =>
                LET di == norm_doi(out_csv.rows[i].doi)
                    dj == norm_doi(out_csv.rows[j].doi)
                    ti == norm_title(out_csv.rows[i].title)
                    tj == norm_title(out_csv.rows[j].title)
                IN /\ (di = << >> /\ dj = << >>) \/ di # dj
                   /\ (di = << >> /\ dj = << >>) => ti # tj
                   /\ (di = << >>) # (dj = << >>) => ti # tj

\* a run that dropped a record and kept a survivor with a DOI key beside one
\* without
DedupPostconditionWitness ==
    /\ out_csv.written
    /\ removed > 0
    /\ \E i, j \in 1..Len(out_csv.rows) :
          /\ norm_doi(out_csv.rows[i].doi) # << >>
          /\ norm_doi(out_csv.rows[j].doi) = << >>

\* C2: when the input is two records with the same non-empty doiNorm whose
\* sources are different labels of the precedence list, the one survivor is
\* the record whose source appears earlier (first) in the list.
FirstIndex(source) == CHOOSE i \in 1..Len(precedence) :
                         /\ precedence[i] = source
                         /\ \A j \in 1..(i - 1) : precedence[j] # source

PrecedenceWins ==
    (/\ out_csv.written
     /\ Len(merged) = 2
     /\ merged[1].doi_norm # << >>
     /\ merged[1].doi_norm = merged[2].doi_norm
     /\ merged[1].source # merged[2].source
     /\ Listed(merged[1].source) /\ Listed(merged[2].source))
    => /\ Len(out_csv.rows) = 1
       /\ \A i \in 1..2 :
             FirstIndex(out_csv.rows[1].source) <= FirstIndex(merged[i].source)

\* C2, for a precedence list in which no label is repeated
PrecedenceWinsNoRepeat ==
    (\A i, j \in 1..Len(precedence) : precedence[i] = precedence[j] => i = j)
    => PrecedenceWins

\* C3: in the DOI pass, one record is retained for every non-empty doiNorm,
\* and no record with the same doiNorm and the same sourceRank as the
\* retained one came before it in the concatenated input.
DoiPassStable ==
    DoiPassDone =>
        /\ \A j \in 1..Len(merged) :
              merged[j].doi_norm # << >> =>
                  Cardinality({i \in 1..Len(dedup_doi) :
                                 dedup_doi[i].doi_norm = merged[j].doi_norm}) = 1
        /\ \A i \in 1..Len(dedup_doi), j \in 1..Len(merged) :
              (/\ merged[j].doi_norm = dedup_doi[i].doi_norm
               /\ merged[j].source_rank = dedup_doi[i].source_rank)
              => dedup_doi[i].row <= merged[j].row

\* the DOI pass retained the first of two records of different sources that
\* tie on doiNorm and sourceRank
DoiPassStableWitness ==
    /\ DoiPassDone
    /\ \E i \in 1..Len(dedup_doi), j \in 1..Len(merged) :
          /\ merged[j].doi_norm = dedup_doi[i].doi_norm
          /\ merged[j].source_rank = dedup_doi[i].source_rank
          /\ merged[j].source # dedup_doi[i].source
          /\ dedup_doi[i].row < merged[j].row

\* the command line of the end-to-end scenario with the DOIs da and db
Scenario(da, db) ==
    /\ args.input =
          << InputSpec(Tok("Scopus"), File(<< Row(T_Foo, da) >>)),
             InputSpec(Tok("IEEE Xplore"), File(<< Row(T_FooBar, db) >>)) >>
    /\ args.precedence = << Tok("Scopus"), Tok("IEEE Xplore") >>

\* C4 as stated: the scenario with the DOIs "10.1/x" and "10.1/X" writes
\* exactly one record, the Scopus one.
ScenarioOneRecord ==
    (out_csv.written /\ Scenario(E_x, E_X)) =>
        /\ Len(out_csv.rows) = 1
        /\ out_csv.rows[1].source = "Scopus"

\* C4: the scenario with the DOIs "10.1/x" and "10.1/X" writes both records
\* (neither DOI has a registrant of 4 to 9 digits, both doiNorm are empty and
\* the titles differ); with the DOIs "10.1000/x" and "10.1000/X" it writes
\* exactly one record, the Scopus one.
ScenarioOutcome ==
    /\ (out_csv.written /\ Scenario(E_x, E_X)) =>
          /\ Len(out_csv.rows) = 2
          /\ {out_csv.rows[i].source : i \in 1..2} = {"Scopus", "IEEE Xplore"}
    /\ (out_csv.written /\ Scenario(V_x, V_X)) =>
          /\ Len(out_csv.rows) = 1
          /\ out_csv.rows[1].source = "Scopus"
          /\ out_csv.rows[1].doi = V_x

\* the scenario as stated has run and its output is written
ScenarioWitness == out_csv.written /\ Scenario(E_x, E_X) /\ Len(out_csv.rows) = 2

\* C5: norm_doi is idempotent.
NormDoiIdempotent == pc = "renormed" => z = y

\* C6: a run that read its inputs and wrote the output has printed the
\* summary line and then the per-source counts before and after, and main
\* returns normally.
NormalCompletion ==
    (Ended /\ out_csv.written) =>
        /\ exit_status = "ok"
        /\ \E i \in 1..Len(stdout) :
              /\ stdout[i].line = "OK"
              /\ i + 2 <= Len(stdout)
              /\ stdout[i + 1].line = "before"
              /\ stdout[i + 2].line = "after"

HasMalformed == \E i \in 1..Len(args.input) : ~args.input[i].colon
HasValid == \E i \in 1..Len(args.input) : args.input[i].colon
AllReadable ==
    \A i \in 1..Len(args.input) :
        args.input[i].colon => args.input[i].path.readable

\* the part of C7 about the merged input: every value without a colon got
\* one warning, and the merged input is the records of the other values in
\* --input order
MalformedSkippedMerged ==
    (DoiPassDone \/ pc = "doi") =>
        /\ Cardinality({i \in 1..Len(stdout) : stdout[i].line = "WARN"})
             = Cardinality({i \in 1..Len(args.input) : ~args.input[i].colon})
        /\ initial_total = Len(ExpectedRecords)
        /\ \A i \in 1..Len(merged) :
              OutCols(merged)[i] = ExpectedRecords[merged[i].row + 1]

\* C7: a run with an --input value without a colon beside valid values
\* (their files readable) warns, skips the value, merges the records of the
\* other values in order, and succeeds.
MalformedSkipped ==
    (Ended /\ HasMalformed /\ HasValid /\ AllReadable) =>
        /\ MalformedSkippedMerged
        /\ out_csv.written
        /\ exit_status = "ok"

\* the records that enter the title pass: the DOI pass survivors and the
\* records without a DOI key
EntersTitlePass(r) == r \in Range(dedup_doi) \/ r.doi_norm = << >>

\* C8: for every record that enters the title pass, the record retained for
\* its titleNorm has a lower sourceRank, or the same sourceRank and a place
\* in the concatenated input that is not later.
TitlePassFirstSeen ==
    TitlePassDone =>
        \A j \in 1..Len(merged) :
            EntersTitlePass(merged[j]) =>
                \E i \in 1..Len(dedup_all) :
                    /\ dedup_all[i].title_norm = merged[j].title_norm
                    /\ \/ dedup_all[i].source_rank < merged[j].source_rank
                       \/ /\ dedup_all[i].source_rank = merged[j].source_rank
                          /\ dedup_all[i].row <= merged[j].row

\* C9: a source that is not in the precedence list has a sourceRank above
\* that of every listed source, and in the DOI pass no record of an unlisted
\* source is retained when a record of a listed source has the same doiNorm.
UnrankedLoses ==
    /\ \A i, j \in 1..Len(merged) :
          (~Listed(merged[i].source) /\ Listed(merged[j].source))
          => merged[i].source_rank > merged[j].source_rank
    /\ DoiPassDone =>
          \A i \in 1..Len(dedup_doi), j \in 1..Len(merged) :
              ~(/\ merged[j].doi_norm = dedup_doi[i].doi_norm
                /\ ~Listed(dedup_doi[i].source)
                /\ Listed(merged[j].source))

\* C10: every record written is a record of the merged input with its six
\* fields unchanged, no merged record is written twice, no source has more
\* records after the passes than before, and Unique <= Input total with
\* Removed = Input total - Unique >= 0.
OnlySelects ==
    out_csv.written =>
        /\ Len(out_csv.rows) = Len(dedup_all)
        /\ \A i \in 1..Len(dedup_all) :
              /\ dedup_all[i].row \in 0..(Len(ExpectedRecords) - 1)
              /\ out_csv.rows[i] = ExpectedRecords[dedup_all[i].row + 1]
        /\ \A i, j \in 1..Len(dedup_all) :
              dedup_all[i].row = dedup_all[j].row => i = j
        /\ \A l \in DOMAIN per_source_after :
              /\ l \in DOMAIN per_source_before
              /\ per_source_after[l] <= per_source_before[l]
        /\ initial_total = Len(ExpectedRecords)
        /\ final_total = Len(out_csv.rows)
        /\ final_total <= initial_total
        /\ removed = initial_total - final_total
        /\ removed >= 0

\* a run of three records that dropped one and wrote two
OnlySelectsWitness ==
    /\ out_csv.written
    /\ initial_total = 3
    /\ removed = 1
    /\ Len(out_csv.rows) = 2
====
